---- MODULE Spec2Model ----
(***************************************************************************)
(* A model of the jwtregistry package: the process-wide registry of named  *)
(* JWT contexts (src/registry.go), its options and its clock.              *)
(*                                                                         *)
(* Every goroutine that calls into the package is a thread of the model.   *)
(* A call is a sequence of steps; a step is one access to shared state     *)
(* (the registry map, the mutex, the once-guard) together with the         *)
(* thread-local code that follows it.                                      *)
(***************************************************************************)
EXTENDS Integers, Sequences, FiniteSets, TLC

VARIABLES
    registry,   \* var registry map[string]*Context (nil until allocated)
    lock,       \* var lock sync.Mutex: the thread holding it, or NoThread
    oncelock,   \* var oncelock sync.Once: [done, owner]
    crashed,    \* the process died: a panic or a fatal runtime throw
    pc,         \* per thread: the position inside the current call
    call,       \* per thread: the operation called and its arguments
    r,          \* per thread: Register's local r, the Context being built
    c,          \* per thread: Sign/Validate's local c, the Context looked up
    found,      \* per thread: Sign/Validate's local found
    iter,       \* per thread: the state of Clear's range loop
    ret,        \* per thread: the values the call returns
    allocs,     \* history: how often the body of initOnce has run
    old,        \* history: per thread, what its last map write replaced
    touched,    \* history: per thread, whether another thread stepped during its Clear
    saw,        \* history: per thread, the Clears in progress whose removals it has seen
    kept        \* per thread: the token the caller keeps from its last successful Sign,
                \* and as history the Context, claims and clock it was signed with

vars == <<registry, lock, oncelock, crashed, pc, call, r, c, found, iter, ret,
          allocs, old, touched, saw, kept>>

----------------------------------------------------------------------------
(* Bounds of the model *)

\* The longest option list a Register call of the sequential model passes.
MaxOpts == 2

Threads == {"t1", "t2"}
NoThread == "none"

Purposes == {"", "a", "b"}
Issuers == {"", "flame", "not-flame"}

----------------------------------------------------------------------------
(* Keys, key sets, clocks, contexts *)

\* A jwk.Key as the tests build it: key id, algorithm, secret.
Key(kid, alg, secret) == [kid |-> kid, alg |-> alg, secret |-> secret]

Key1 == Key("key1", "HS256", "abcd1234")

\* A jwk.Set is an interface value: nil, or an ordered collection of keys.
NilKeyset == [isNil |-> TRUE, keys |-> <<>>]
Keyset(keys) == [isNil |-> FALSE, keys |-> keys]
EmptyKeyset == Keyset(<<>>)
KS1 == Keyset(<<Key1>>)

\* A second key, of another algorithm, and a keyset of both keys.
Key2 == Key("key2", "HS512", "efgh5678")
KS2 == Keyset(<<Key1, Key2>>)

\* A jwt.Clock argument: nil, or a *TimeClock.
NilClock == [isNil |-> TRUE, NowTime |-> 0]
TimeClock(n) == [isNil |-> FALSE, NowTime |-> n]

\* The zero value of a *Context (a nil pointer) and a Context value.
NilContext ==
    [isNil |-> TRUE, purpose |-> "", issuer |-> "", keyset |-> NilKeyset,
     signingKeyName |-> "", signingValidityPeriod |-> 0, clock |-> NilClock]

\* &Context{purpose: purpose, issuer: issuer, clock: &TimeClock{}}
NewContext(purpose, issuer) ==
    [isNil |-> FALSE, purpose |-> purpose, issuer |-> issuer, keyset |-> NilKeyset,
     signingKeyName |-> "", signingValidityPeriod |-> 0, clock |-> TimeClock(0)]

----------------------------------------------------------------------------
(* Options *)

WithKeyset(keyset) ==
    [kind |-> "keyset", keyset |-> keyset, name |-> "", d |-> 0]
WithSigningKeyName(name) ==
    [kind |-> "keyname", keyset |-> NilKeyset, name |-> name, d |-> 0]
WithSigningValidityPeriod(d) ==
    [kind |-> "period", keyset |-> NilKeyset, name |-> "", d |-> d]

\* opt(r): the closure an Option holds, applied to the Context.
ApplyOptionFirstWins(opt, cx) ==
    CASE opt.kind = "keyset" ->
            IF cx.keyset = NilKeyset THEN [cx EXCEPT !.keyset = opt.keyset] ELSE cx
      [] opt.kind = "keyname" ->
            IF cx.signingKeyName = "" THEN [cx EXCEPT !.signingKeyName = opt.name] ELSE cx
      [] opt.kind = "period" ->
            IF cx.signingValidityPeriod = 0
            THEN [cx EXCEPT !.signingValidityPeriod = opt.d] ELSE cx

ApplyOption(opt, cx) ==
    CASE opt.kind = "keyset" -> [cx EXCEPT !.keyset = opt.keyset]
      [] opt.kind = "keyname" -> [cx EXCEPT !.signingKeyName = opt.name]
      [] opt.kind = "period" -> [cx EXCEPT !.signingValidityPeriod = opt.d]

\* for _, opt := range opts { opt(r) }
RECURSIVE ApplyOptions(_, _)
ApplyOptions(opts, cx) ==
    IF opts = <<>> THEN cx
    ELSE ApplyOptions(Tail(opts), ApplyOption(Head(opts), cx))

----------------------------------------------------------------------------
(* The registry map *)

NilMap == [isNil |-> TRUE, m |-> [k \in {} |-> NilContext]]
\* make(map[string]*Context)
MakeMap == [isNil |-> FALSE, m |-> [k \in {} |-> NilContext]]

Keys(reg) == DOMAIN reg.m

\* c, found = registry[name]: a nil map reads as an empty one.
MapLookup(reg, name) ==
    IF name \in Keys(reg)
    THEN [c |-> reg.m[name], found |-> TRUE]
    ELSE [c |-> NilContext, found |-> FALSE]

\* registry[purpose] = r, on a map that is not nil.
MapInsertKeepOld(reg, k, v) ==
    [reg EXCEPT !.m = [x \in Keys(reg) \cup {k} |->
                          IF x \in Keys(reg) THEN reg.m[x] ELSE v]]

MapInsertInPlace(reg, k, v) ==
    IF k \in Keys(reg)
    THEN [reg EXCEPT !.m[k].issuer = v.issuer, !.m[k].keyset = v.keyset]
    ELSE [reg EXCEPT !.m = [x \in Keys(reg) \cup {k} |-> IF x = k THEN v ELSE reg.m[x]]]

MapInsertFresh(reg, k, v) == [reg EXCEPT !.m = [x \in {k} |-> v]]

MapInsert(reg, k, v) ==
    [reg EXCEPT !.m = [x \in Keys(reg) \cup {k} |-> IF x = k THEN v ELSE reg.m[x]]]

\* delete(registry, k): a no-op on a nil map and on an absent key.
MapDeleteNothing(reg, k) == reg

MapDeleteAll(reg, k) == [reg EXCEPT !.m = [x \in {} |-> NilContext]]

MapDelete(reg, k) ==
    [reg EXCEPT !.m = [x \in Keys(reg) \ {k} |-> reg.m[x]]]

----------------------------------------------------------------------------
(* Claims and tokens: what the jwx library builds, signs and parses *)

\* A claim value: a string or a number (an instant, in seconds since the epoch).
Str(s) == [isNum |-> FALSE, num |-> 0, str |-> s]
Num(n) == [isNum |-> TRUE, num |-> n, str |-> ""]

\* fmt.Sprintf("%v", v)
Render(v) == IF v.isNum THEN ToString(v.num) ELSE v.str

NoClaims == [k \in {} |-> Str("")]
\* A map[string]string: nil, or a map.
NilStringMap == [isNil |-> TRUE, m |-> [k \in {} |-> ""]]
StringMap(m) == [isNil |-> FALSE, m |-> m]
EmptyStringMap == StringMap([k \in {} |-> ""])

StandardClaims == {"iss", "iat", "exp"}

\* A []byte holding a compact JWT: nil, bytes that do not parse, or a token
\* with its header (alg, kid), its claim set and the secret that signed it.
NilBytes ==
    [isNil |-> TRUE, parses |-> FALSE, alg |-> "", kid |-> "", claims |-> NoClaims,
     secret |-> ""]
Garbage ==
    [isNil |-> FALSE, parses |-> FALSE, alg |-> "", kid |-> "", claims |-> NoClaims,
     secret |-> ""]
Token(alg, kid, claims, secret) ==
    [isNil |-> FALSE, parses |-> TRUE, alg |-> alg, kid |-> kid, claims |-> claims,
     secret |-> secret]

\* keyset.Len()
KeysetLen(ks) == Len(ks.keys)

\* keyset.LookupKeyID(name): the first key of the set with that key id.
KeyIndex(ks, name) ==
    IF \E i \in 1..Len(ks.keys) : ks.keys[i].kid = name
    THEN CHOOSE i \in 1..Len(ks.keys) :
            /\ ks.keys[i].kid = name
            /\ \A j \in 1..(i - 1) : ks.keys[j].kid # name
    ELSE 0

\* t.Set(k, v) on a claim set.
SetClaim(m, k, v) == [x \in DOMAIN m \cup {k} |-> IF x = k THEN v ELSE m[x]]

\* time.Now() is the wall clock, an input of the call (wall).
\* (tc *TimeClock) Now(), as the file's later definition has it (lines 64-71);
\* the earlier definition in the same file returned time.Unix(tc.NowTime, 0)
\* whatever NowTime was.
TimeClockNowEpoch(tc, wall) == tc.NowTime

TimeClockNow(tc, wall) == IF tc.NowTime # 0 THEN tc.NowTime ELSE wall

\* nowFromClock(clock)
nowFromClock(clock, wall) == IF clock.isNil THEN wall ELSE TimeClockNow(clock, wall)

\* The instants a decimal string of the model can denote.
MaxInstant == 9999
Instants == 0..MaxInstant
IsNumeric(s) == \E n \in Instants : ToString(n) = s
ParseNumeric(s) == CHOOSE n \in Instants : ToString(n) = s

\* t.Set(k, v) with a string v, as Sign calls it: the library stores a string
\* under "iss" and under a private name, and converts the value given for a
\* date claim ("iat", "exp") to an instant, refusing one that is not a number.
SetString(m, k, v) ==
    IF k \in {"iat", "exp"}
    THEN IF IsNumeric(v)
         THEN [err |-> "", m |-> SetClaim(m, k, Num(ParseNumeric(v)))]
         ELSE [err |-> "invalid value for date claim", m |-> m]
    ELSE [err |-> "", m |-> SetClaim(m, k, Str(v))]

\* for k, v := range claims { err = t.Set(k, v); if err != nil { return } }:
\* the keys are distinct, so the order of the range shows only in which of
\* several refused values is reported.
SetAllPrivateOnly(m, claims, todo) ==
    [err |-> "",
     m |-> [x \in DOMAIN m \cup (todo \ StandardClaims) |->
               IF x \in DOMAIN m THEN m[x] ELSE Str(claims[x])]]

RECURSIVE SetAll(_, _, _)
SetAll(m, claims, todo) ==
    IF todo = {} THEN [err |-> "", m |-> m]
    ELSE LET k == CHOOSE x \in todo : TRUE
             set == SetString(m, k, claims[k])
         IN IF set.err # "" THEN set
            ELSE SetAll(set.m, claims, todo \ {k})

\* The result of Sign and of Validate: the values returned, and the calls made
\* into the jwx library on the way, in order.
Result(err, signed, claims, calls) ==
    [err |-> err, signed |-> signed, claims |-> claims, calls |-> calls]
NoResult == Result("", NilBytes, NilStringMap, <<>>)

\* Sign, lines 133-147: the checks of the Context's configuration, in the
\* order of the code, with the library calls each one makes.
ConfigErrorKeysetFirst(cx) ==
    IF cx.keyset.isNil THEN [err |-> "keyset is empty", calls |-> <<>>]
    ELSE IF KeysetLen(cx.keyset) = 0 THEN [err |-> "keyset is empty", calls |-> <<"Len">>]
    ELSE IF Len(cx.signingKeyName) = 0 THEN [err |-> "signing key not set", calls |-> <<"Len">>]
    ELSE IF KeyIndex(cx.keyset, cx.signingKeyName) = 0
         THEN [err |-> "key is not in the keyset", calls |-> <<"Len", "LookupKeyID">>]
    ELSE [err |-> "", calls |-> <<"Len", "LookupKeyID">>]

ConfigError(cx) ==
    IF Len(cx.signingKeyName) = 0 THEN [err |-> "signing key not set", calls |-> <<>>]
    ELSE IF cx.keyset.isNil THEN [err |-> "keyset is empty", calls |-> <<>>]
    ELSE IF KeysetLen(cx.keyset) = 0 THEN [err |-> "keyset is empty", calls |-> <<"Len">>]
    ELSE IF KeyIndex(cx.keyset, cx.signingKeyName) = 0
         THEN [err |-> "key is not in the keyset", calls |-> <<"Len", "LookupKeyID">>]
    ELSE [err |-> "", calls |-> <<"Len", "LookupKeyID">>]

\* Sign, line 154: if c.signingValidityPeriod > 0
HasExpiryNonZero(period) == period # 0

HasExpiry(period) == period > 0

\* Sign, line 155: now.Add(c.signingValidityPeriod)
ExpiryIsPeriod(now, period) == period

Expiry(now, period) == now + period

\* Sign, line 169: jwa.SignatureAlgorithm(key.Algorithm()), the algorithm
\* jwt.Sign is called with. An earlier version of Sign passed jwa.HS256.
SignAlgorithmHS256(key) == "HS256"

SignAlgorithm(key) == key.alg

\* Sign on the Context found: src/registry.go lines 133-170.
SignFound(cx, claims, clock, wall) ==
    IF ConfigError(cx).err # "" THEN
        Result(ConfigError(cx).err, NilBytes, NilStringMap, ConfigError(cx).calls)
    ELSE
        LET key == cx.keyset.keys[KeyIndex(cx.keyset, cx.signingKeyName)]
            now == nowFromClock(clock, wall)
            std == SetClaim(SetClaim(NoClaims, "iss", Str(cx.issuer)), "iat", Num(now))
            built == IF HasExpiry(cx.signingValidityPeriod)
                     THEN SetClaim(std, "exp", Num(Expiry(now, cx.signingValidityPeriod)))
                     ELSE std
            all == SetAll(built, claims.m, DOMAIN claims.m)
        IN IF all.err # ""
           THEN Result(all.err, NilBytes, NilStringMap,
                       <<"Len", "LookupKeyID", "Build", "Set">>)
           ELSE Result("", Token(SignAlgorithm(key), key.kid, all.m, key.secret), NilStringMap,
                       <<"Len", "LookupKeyID", "Build", "Sign">>)

\* Sign, from the lookup's result on: src/registry.go lines 128-170.
SignRestUnchecked(cx, fnd, claims, clock, wall) == SignFound(cx, claims, clock, wall)

SignRest(cx, fnd, claims, clock, wall) ==
    IF ~fnd THEN
        Result("context not found in registry", NilBytes, NilStringMap, <<>>)
    ELSE SignFound(cx, claims, clock, wall)

\* Validate, lines 190-197: the options handed to jwt.Parse. WithValidate(true),
\* WithIssuer(c.issuer), WithKeySet(c.keyset), and WithClock(clock) when the
\* clock argument is not nil (a nil clock here stands for no clock option).
ParseOptionsNoClock(cx, clock) ==
    [issuer |-> cx.issuer, keyset |-> cx.keyset, clock |-> NilClock]

ParseOptionsFixedIssuer(cx, clock) ==
    [issuer |-> "flame", keyset |-> cx.keyset, clock |-> clock]

ParseOptions(cx, clock) ==
    [issuer |-> cx.issuer, keyset |-> cx.keyset, clock |-> clock]

\* jwt.Parse(signed, opts...): "" when the token verifies and validates, or
\* the error. Without a clock option the library reads time.Now(). Which of
\* several failed checks the library reports is the library's choice; the
\* order here is one such choice.
ParseError(signed, opts, wall) ==
    LET now == nowFromClock(opts.clock, wall)
        i == KeyIndex(opts.keyset, signed.kid)
    IN IF signed.isNil \/ ~signed.parses THEN "failed to parse token"
       ELSE IF i = 0 \/ opts.keyset.keys[i].secret # signed.secret
                      \/ opts.keyset.keys[i].alg # signed.alg
            THEN "failed to verify jws signature"
       ELSE IF "iss" \notin DOMAIN signed.claims \/ signed.claims["iss"] # Str(opts.issuer)
            THEN "\"iss\" not satisfied: values do not match"
       ELSE IF "iat" \in DOMAIN signed.claims /\ now < signed.claims["iat"].num
            THEN "\"iat\" not satisfied"
       ELSE IF "exp" \in DOMAIN signed.claims /\ now >= signed.claims["exp"].num
            THEN "\"exp\" not satisfied"
       ELSE ""

\* The claim names the library keeps in fields of their own; of those the
\* model uses iss, iat, exp and sub. Every other name is a private claim.
RegisteredClaims == StandardClaims \cup {"sub"}

\* t.PrivateClaims(), each value through fmt.Sprintf("%v", v), into
\* claims = make(map[string]string).
PrivateClaimsAndStandard(signed) ==
    StringMap([k \in DOMAIN signed.claims |-> Render(signed.claims[k])])

PrivateClaims(signed) ==
    StringMap([k \in DOMAIN signed.claims \ RegisteredClaims |-> Render(signed.claims[k])])

\* Validate, lines 185-188: the check of the Context's keyset, with the
\* library calls it makes.
ValidateConfigErrorAsSign(cx) == ConfigError(cx)

ValidateConfigError(cx) ==
    IF cx.keyset.isNil THEN [err |-> "keyset is empty", calls |-> <<>>]
    ELSE IF KeysetLen(cx.keyset) = 0 THEN [err |-> "keyset is empty", calls |-> <<"Len">>]
    ELSE [err |-> "", calls |-> <<"Len">>]

\* Validate, from the lookup's result on: src/registry.go lines 180-208.
ValidateRest(cx, fnd, signed, clock, wall) ==
    IF ~fnd THEN
        Result("context not found in registry", NilBytes, NilStringMap, <<>>)
    ELSE IF ValidateConfigError(cx).err # "" THEN
        Result(ValidateConfigError(cx).err, NilBytes, NilStringMap,
               ValidateConfigError(cx).calls)
    ELSE
        LET err == ParseError(signed, ParseOptions(cx, clock), wall)
        IN IF err # ""
           THEN Result(err, NilBytes, NilStringMap, <<"Len", "Parse">>)
           ELSE Result("", NilBytes, PrivateClaims(signed), <<"Len", "Parse">>)

----------------------------------------------------------------------------
(* Calls and their arguments *)

Call(op, purpose, issuer, opts, claims, signed, clock, wall) ==
    [op |-> op, purpose |-> purpose, issuer |-> issuer, opts |-> opts,
     claims |-> claims, signed |-> signed, clock |-> clock, wall |-> wall]
NoCall == Call("none", "", "", <<>>, NilStringMap, NilBytes, NilClock, 0)

\* Clear's range loop: the entries it must still produce and those it may
\* produce or skip.  History, for the Clear in progress: snap, the purposes
\* registered when it began and not registered again since; gone, the
\* purposes it has removed and that have not been registered again since.
NoIter == [on |-> FALSE, must |-> {}, may |-> {}, snap |-> {}, gone |-> {}]
NoOld == [wrote |-> FALSE, c |-> NilContext, found |-> FALSE]

\* What a caller keeps of a successful Sign: the token; and, as history, the
\* Context that signed it and the claims and clock arguments of the call.
Kept(signed, by, claims, clock) ==
    [signed |-> signed, by |-> by, claims |-> claims, clock |-> clock]
NoKept == Kept(NilBytes, NilContext, NilStringMap, NilClock)

\* The wall clock's reading during the calls of the model.
WallNow == 5000

\* The issuers, option values and lists of the concurrent model (those of
\* setupKeys).
SmallIssuers == {"", "flame"}
SmallOptLists ==
    { <<>>,
      <<WithKeyset(KS1), WithSigningKeyName("key1")>> }

\* The option values and lists of the sequential model.
OptionValues ==
    { WithKeyset(KS1), WithKeyset(NilKeyset),
      WithSigningKeyName("key1"), WithSigningKeyName(""),
      WithSigningValidityPeriod(60), WithSigningValidityPeriod(0) }

RECURSIVE SeqsUpTo(_, _)
SeqsUpTo(S, n) ==
    IF n = 0 THEN {<<>>}
    ELSE LET shorter == SeqsUpTo(S, n - 1)
         IN shorter \cup {Append(q, x) : q \in shorter, x \in S}

RichOptLists == SeqsUpTo(OptionValues, MaxOpts)

\* The token the tests validate: signed by key1 for issuer flame at 1111.
TestToken ==
    Token("HS256", "key1",
          SetClaim(SetClaim(NoClaims, "iss", Str("flame")), "iat", Num(1111)),
          "abcd1234")

SignClaims == {EmptyStringMap}
SignClocks == {TimeClock(1111)}
SignedInputs == {TestToken}
ValidateClocks == {TimeClock(2222)}

----------------------------------------------------------------------------
(* The state machine *)

Init ==
    /\ registry = NilMap
    /\ lock = NoThread
    /\ oncelock = [done |-> FALSE, owner |-> NoThread]
    /\ crashed = FALSE
    /\ pc = [t \in Threads |-> "idle"]
    /\ call = [t \in Threads |-> NoCall]
    /\ r = [t \in Threads |-> NilContext]
    /\ c = [t \in Threads |-> NilContext]
    /\ found = [t \in Threads |-> FALSE]
    /\ iter = [t \in Threads |-> NoIter]
    /\ ret = [t \in Threads |-> NoResult]
    /\ allocs = 0
    /\ old = [t \in Threads |-> NoOld]
    /\ touched = [t \in Threads |-> FALSE]
    /\ saw = [t \in Threads |-> {}]
    /\ kept = [t \in Threads |-> NoKept]

\* A thread of a live process is at a position of its call.
At(t, position) == ~crashed /\ pc[t] = position

\* History: a step of t happens during every Clear another thread is inside.
Touch(t) ==
    [u \in Threads |-> IF u # t /\ call[u].op = "Clear" THEN TRUE ELSE touched[u]]

\* The first position of each operation: Register, Sign and Validate start
\* with initOnce(); Delete starts with lock.Lock(); Clear with its range.
FirstPc(op) ==
    CASE op \in {"Register", "Sign", "Validate"} -> "init"
      [] op = "Delete" -> "lock"
      [] op = "Clear" -> "range"

\* A thread calls an operation of the package.
Invoke(t, cl) ==
    /\ At(t, "idle")
    /\ pc' = [pc EXCEPT ![t] = FirstPc(cl.op)]
    /\ call' = [call EXCEPT ![t] = cl]
    /\ touched' = [Touch(t) EXCEPT ![t] = FALSE]
    /\ UNCHANGED <<kept, registry, lock, oncelock, crashed, r, c, found, iter, ret,
                   allocs, old, saw>>

CallRegister(t, purposes, issuers, optLists) ==
    \E p \in purposes, i \in issuers, o \in optLists :
        Invoke(t, Call("Register", p, i, o, NilStringMap, NilBytes, NilClock, 0))

CallDelete(t, purposes) ==
    \E p \in purposes :
        Invoke(t, Call("Delete", p, "", <<>>, NilStringMap, NilBytes, NilClock, 0))

CallClear(t) ==
    Invoke(t, Call("Clear", "", "", <<>>, NilStringMap, NilBytes, NilClock, 0))

CallSign(t, purposes, claimSets, clocks) ==
    \E p \in purposes, cl \in claimSets, ck \in clocks :
        Invoke(t, Call("Sign", p, "", <<>>, cl, NilBytes, ck, WallNow))

CallValidate(t, purposes, signedInputs, clocks) ==
    \E p \in purposes, s \in signedInputs, ck \in clocks :
        Invoke(t, Call("Validate", p, "", <<>>, NilStringMap, s, ck, WallNow))

\* Validate of the token the caller kept from Sign.
CallValidateHeld(t, purposes, clocks) ==
    /\ ~kept[t].signed.isNil
    /\ \E p \in purposes, ck \in clocks :
          Invoke(t, Call("Validate", p, "", <<>>, NilStringMap, kept[t].signed, ck, WallNow))

\* oncelock.Do(f) runs f unless an earlier Do has completed.
OnceRunsAlways(once) == TRUE

OnceRuns(once) == ~once.done

\* The position after initOnce() returns.
AfterInit(op) == IF op = "Register" THEN "check" ELSE "lock"

\* initOnce(): oncelock.Do enters. A completed once is a no-op; otherwise the
\* caller runs the body, or waits while another thread is running it.
InitOnce(t) ==
    /\ At(t, "init")
    /\ IF ~OnceRuns(oncelock)
       THEN /\ pc' = [pc EXCEPT ![t] = AfterInit(call[t].op)]
            /\ UNCHANGED oncelock
       ELSE /\ oncelock.owner = NoThread
            /\ oncelock' = [oncelock EXCEPT !.owner = t]
            /\ pc' = [pc EXCEPT ![t] = "initbody"]
    /\ touched' = Touch(t)
    /\ UNCHANGED <<kept, registry, lock, crashed, call, r, c, found, iter, ret, allocs, old, saw>>

\* The body of initOnce: registry = make(map[string]*Context); the once is
\* then marked done and released.
InitBody(t) ==
    /\ At(t, "initbody")
    /\ registry' = MakeMap
    /\ allocs' = allocs + 1
    /\ oncelock' = [done |-> TRUE, owner |-> NoThread]
    /\ pc' = [pc EXCEPT ![t] = AfterInit(call[t].op)]
    /\ touched' = Touch(t)
    /\ UNCHANGED <<kept, lock, crashed, call, r, c, found, iter, ret, old, saw>>

\* Register, lines 71-87: the argument checks, then the Context and its options.
RegisterBuildUnchecked(purpose, issuer, opts) ==
    [err |-> "", r |-> ApplyOptions(opts, NewContext(purpose, issuer))]

RegisterBuild(purpose, issuer, opts) ==
    IF Len(purpose) = 0 THEN [err |-> "purpose must be provided", r |-> NilContext]
    ELSE IF Len(issuer) = 0 THEN [err |-> "issuer must be provided", r |-> NilContext]
    ELSE [err |-> "", r |-> ApplyOptions(opts, NewContext(purpose, issuer))]

RegisterCheck(t) ==
    /\ At(t, "check")
    /\ LET b == RegisterBuild(call[t].purpose, call[t].issuer, call[t].opts)
       IN IF b.err # ""
          THEN /\ ret' = [ret EXCEPT ![t] = Result(b.err, NilBytes, NilStringMap, <<>>)]
               /\ pc' = [pc EXCEPT ![t] = "ret"]
               /\ UNCHANGED r
          ELSE /\ r' = [r EXCEPT ![t] = b.r]
               /\ pc' = [pc EXCEPT ![t] = "lock"]
               /\ UNCHANGED ret
    /\ touched' = Touch(t)
    /\ UNCHANGED <<kept, registry, lock, oncelock, crashed, call, c, found, iter, allocs, old, saw>>

\* The position a thread reaches when lock.Lock() returns.
Locked(op) ==
    CASE op = "Register" -> "insert"
      [] op = "Delete" -> "delete"
      [] op \in {"Sign", "Validate"} -> "find"

\* lock.Unlock(), deferred by Register, Delete and findContext: the holder
\* of the mutex after it.
UnlockForgotten(holder) == holder

Unlock(holder) == NoThread

\* lock.Lock(): blocks while another thread holds the mutex.
Lock(t) ==
    /\ At(t, "lock")
    /\ lock = NoThread
    /\ lock' = t
    /\ pc' = [pc EXCEPT ![t] = Locked(call[t].op)]
    /\ touched' = Touch(t)
    /\ UNCHANGED <<kept, registry, oncelock, crashed, call, r, c, found, iter, ret, allocs, old, saw>>

\* A range over the map in progress sees a removal: the entry, if not yet
\* reached, is not produced.
IterAfterDelete(it, k) ==
    IF it.on THEN [it EXCEPT !.must = @ \ {k}, !.may = @ \ {k}] ELSE it

\* A range over the map in progress sees a write: an entry created during the
\* iteration may be produced or skipped.
IterAfterInsert(it, k, present) ==
    IF it.on
    THEN [it EXCEPT !.may = IF present THEN @ ELSE @ \cup {k},
                    !.snap = @ \ {k}, !.gone = @ \ {k}]
    ELSE it

\* Register, lines 89-92: registry[purpose] = r, the deferred Unlock, return nil.
\* Writing to a nil map panics.
RegisterInsert(t) ==
    /\ At(t, "insert")
    /\ IF registry.isNil
       THEN /\ crashed' = TRUE
            /\ UNCHANGED <<registry, iter, old>>
       ELSE /\ registry' = MapInsert(registry, call[t].purpose, r[t])
            /\ iter' = [u \in Threads |->
                          IterAfterInsert(iter[u], call[t].purpose,
                                          call[t].purpose \in Keys(registry))]
            /\ old' = [old EXCEPT ![t] =
                          [wrote |-> TRUE,
                           c |-> MapLookup(registry, call[t].purpose).c,
                           found |-> MapLookup(registry, call[t].purpose).found]]
            /\ UNCHANGED crashed
    /\ lock' = Unlock(lock)
    /\ ret' = [ret EXCEPT ![t] = NoResult]
    /\ pc' = [pc EXCEPT ![t] = "ret"]
    /\ touched' = Touch(t)
    /\ UNCHANGED <<kept, oncelock, call, r, c, found, allocs, saw>>

\* Delete, lines 99-100: delete(registry, purpose) and the deferred Unlock.
DeleteEntry(t) ==
    /\ At(t, "delete")
    /\ registry' = MapDelete(registry, call[t].purpose)
    /\ iter' = [u \in Threads |-> IterAfterDelete(iter[u], call[t].purpose)]
    /\ old' = [old EXCEPT ![t] =
                  [wrote |-> TRUE,
                   c |-> MapLookup(registry, call[t].purpose).c,
                   found |-> MapLookup(registry, call[t].purpose).found]]
    /\ lock' = Unlock(lock)
    /\ pc' = [pc EXCEPT ![t] = "ret"]
    /\ touched' = Touch(t)
    /\ UNCHANGED <<kept, oncelock, crashed, call, r, c, found, ret, allocs, saw>>

\* findContext, lines 53-54: c, found = registry[name] and the deferred Unlock.
FindContext(t) ==
    /\ At(t, "find")
    /\ c' = [c EXCEPT ![t] = MapLookup(registry, call[t].purpose).c]
    /\ found' = [found EXCEPT ![t] = MapLookup(registry, call[t].purpose).found]
    /\ lock' = Unlock(lock)
    /\ pc' = [pc EXCEPT ![t] = "rest"]
    /\ saw' = [saw EXCEPT ![t] =
                 @ \cup {u \in Threads : call[t].purpose \in iter[u].gone}]
    /\ touched' = Touch(t)
    /\ UNCHANGED <<kept, registry, oncelock, crashed, call, r, iter, ret, allocs, old>>

\* The Context the rest of Sign and of Validate reads its configuration from:
\* the pointer findContext returned, never the map again.
ContextLookedUpAgain(held, reg, name) == MapLookup(reg, name).c

ContextInUse(held, reg, name) == held

\* Sign after findContext: the checks, the token, the signature.
SignFinish(t) ==
    /\ At(t, "rest")
    /\ call[t].op = "Sign"
    /\ ret' = [ret EXCEPT ![t] =
                 SignRest(ContextInUse(c[t], registry, call[t].purpose), found[t],
                          call[t].claims, call[t].clock, call[t].wall)]
    /\ pc' = [pc EXCEPT ![t] = "ret"]
    /\ touched' = Touch(t)
    /\ UNCHANGED <<kept, registry, lock, oncelock, crashed, call, r, c, found, iter,
                   allocs, old, saw>>

\* Validate after findContext: the keyset check, the parse, the private claims.
ValidateFinish(t) ==
    /\ At(t, "rest")
    /\ call[t].op = "Validate"
    /\ ret' = [ret EXCEPT ![t] =
                 ValidateRest(ContextInUse(c[t], registry, call[t].purpose), found[t],
                              call[t].signed, call[t].clock, call[t].wall)]
    /\ pc' = [pc EXCEPT ![t] = "ret"]
    /\ touched' = Touch(t)
    /\ UNCHANGED <<kept, registry, lock, oncelock, crashed, call, r, c, found, iter,
                   allocs, old, saw>>

\* The entries a range over the map produces if nothing else changes it.
RangeKeysButOne(reg) ==
    IF Keys(reg) = {} THEN {} ELSE Keys(reg) \ {CHOOSE k \in Keys(reg) : TRUE}

RangeKeys(reg) == Keys(reg)

\* Clear, line 104: the range statement reads the registry variable and
\* starts to iterate; every entry present now and not removed by another
\* thread meanwhile will be produced.
ClearRange(t) ==
    /\ At(t, "range")
    /\ iter' = [iter EXCEPT ![t] =
                  [on |-> TRUE, must |-> RangeKeys(registry), may |-> {},
                   snap |-> Keys(registry), gone |-> {}]]
    /\ pc' = [pc EXCEPT ![t] = "loop"]
    /\ touched' = Touch(t)
    /\ UNCHANGED <<kept, registry, lock, oncelock, crashed, call, r, c, found, ret,
                   allocs, old, saw>>

\* Clear, line 105: one iteration, delete(registry, k). No lock is taken.
ClearDelete(t) ==
    /\ At(t, "loop")
    /\ \E k \in iter[t].must \cup iter[t].may :
          /\ registry' = MapDelete(registry, k)
          /\ iter' = [u \in Threads |->
                        IF u = t /\ k \in Keys(registry)
                        THEN [IterAfterDelete(iter[u], k) EXCEPT !.gone = @ \cup {k}]
                        ELSE IterAfterDelete(iter[u], k)]
          /\ old' = [old EXCEPT ![t] =
                        [wrote |-> TRUE, c |-> MapLookup(registry, k).c,
                         found |-> MapLookup(registry, k).found]]
    /\ touched' = Touch(t)
    /\ UNCHANGED <<kept, lock, oncelock, crashed, pc, call, r, c, found, ret, allocs, saw>>

\* Clear, lines 106-107: the range is exhausted and Clear returns.
ClearExit(t) ==
    /\ At(t, "loop")
    /\ iter[t].must = {}
    /\ iter' = [iter EXCEPT ![t] = NoIter]
    /\ saw' = [u \in Threads |-> saw[u] \ {t}]
    /\ pc' = [pc EXCEPT ![t] = "ret"]
    /\ touched' = Touch(t)
    /\ UNCHANGED <<kept, registry, lock, oncelock, crashed, call, r, c, found, ret,
                   allocs, old>>

\* The call returns to its caller.
Return(t) ==
    /\ At(t, "ret")
    /\ pc' = [pc EXCEPT ![t] = "idle"]
    /\ call' = [call EXCEPT ![t] = NoCall]
    /\ r' = [r EXCEPT ![t] = NilContext]
    /\ c' = [c EXCEPT ![t] = NilContext]
    /\ found' = [found EXCEPT ![t] = FALSE]
    /\ ret' = [ret EXCEPT ![t] = NoResult]
    /\ old' = [old EXCEPT ![t] = NoOld]
    /\ touched' = [Touch(t) EXCEPT ![t] = FALSE]
    /\ UNCHANGED <<kept, registry, lock, oncelock, crashed, iter, allocs, saw>>

\* The caller of a successful Sign keeps the token it returned.
KeepToken(t) ==
    /\ At(t, "ret")
    /\ call[t].op = "Sign" /\ ret[t].err = ""
    /\ kept' = [kept EXCEPT ![t] = Kept(ret[t].signed, c[t], call[t].claims, call[t].clock)]
    /\ pc' = [pc EXCEPT ![t] = "idle"]
    /\ call' = [call EXCEPT ![t] = NoCall]
    /\ r' = [r EXCEPT ![t] = NilContext]
    /\ c' = [c EXCEPT ![t] = NilContext]
    /\ found' = [found EXCEPT ![t] = FALSE]
    /\ ret' = [ret EXCEPT ![t] = NoResult]
    /\ old' = [old EXCEPT ![t] = NoOld]
    /\ touched' = [Touch(t) EXCEPT ![t] = FALSE]
    /\ UNCHANGED <<registry, lock, oncelock, crashed, iter, allocs, saw>>

\* A thread is at a map access: inside a critical section before its map
\* operation, or inside Clear's loop. In the loop the next access is a
\* delete while the range still has an entry to produce, and otherwise the
\* read by which the range finds itself exhausted.
AtMapRead(t) ==
    \/ pc[t] \in {"find", "range"}
    \/ pc[t] = "loop" /\ iter[t].must \cup iter[t].may = {}
AtMapWrite(t) ==
    \/ pc[t] \in {"insert", "delete"}
    \/ pc[t] = "loop" /\ iter[t].must \cup iter[t].may # {}
AtMap(t) == AtMapRead(t) \/ AtMapWrite(t)

Racing(t, u) == t # u /\ AtMap(t) /\ AtMap(u) /\ (AtMapWrite(t) \/ AtMapWrite(u))

\* Two unsynchronised accesses to the map, one of them a write, are a data
\* race: the accesses may take effect in either order (the interleavings of
\* the other actions), or the runtime detects the concurrent access and
\* throws, which ends the process.
RaceFault ==
    /\ ~crashed
    /\ \E t, u \in Threads : Racing(t, u)
    /\ crashed' = TRUE
    /\ UNCHANGED <<kept, registry, lock, oncelock, pc, call, r, c, found, iter, ret,
                   allocs, old, touched, saw>>

Next ==
    \/ \E t \in Threads :
        \/ CallRegister(t, Purposes, SmallIssuers, SmallOptLists)
        \/ CallDelete(t, Purposes)
        \/ CallClear(t)
        \/ CallSign(t, Purposes, SignClaims, SignClocks)
        \/ CallValidate(t, Purposes, SignedInputs, ValidateClocks)
        \/ InitOnce(t)
        \/ InitBody(t)
        \/ RegisterCheck(t)
        \/ Lock(t)
        \/ RegisterInsert(t)
        \/ DeleteEntry(t)
        \/ FindContext(t)
        \/ SignFinish(t)
        \/ ValidateFinish(t)
        \/ ClearRange(t)
        \/ ClearDelete(t)
        \/ ClearExit(t)
        \/ Return(t)
    \/ RaceFault

Spec == Init /\ [][Next]_vars

\* The sequential model: one thread, and Register with every issuer and every
\* option list of up to MaxOpts options.
SeqThread == "t1"
SeqPurposes == {"", "a"}

NextSeq ==
    \/ CallRegister(SeqThread, SeqPurposes, Issuers, RichOptLists)
    \/ CallDelete(SeqThread, SeqPurposes)
    \/ CallClear(SeqThread)
    \/ CallSign(SeqThread, SeqPurposes, SignClaims, SignClocks)
    \/ CallValidate(SeqThread, SeqPurposes, SignedInputs, ValidateClocks)
    \/ InitOnce(SeqThread)
    \/ InitBody(SeqThread)
    \/ RegisterCheck(SeqThread)
    \/ Lock(SeqThread)
    \/ RegisterInsert(SeqThread)
    \/ DeleteEntry(SeqThread)
    \/ FindContext(SeqThread)
    \/ SignFinish(SeqThread)
    \/ ValidateFinish(SeqThread)
    \/ ClearRange(SeqThread)
    \/ ClearDelete(SeqThread)
    \/ ClearExit(SeqThread)
    \/ Return(SeqThread)

SpecSeq == Init /\ [][NextSeq]_vars

\* The signing model: one thread registers purpose "a" with every
\* combination of keyset, signing key name and validity period, and signs
\* with every clock argument and every set of extra claims.
SignKeysets == {NilKeyset, EmptyKeyset, KS1, KS2}
SignKeyNames == {"", "key1", "key2", "notthere"}
SignPeriods == {0, 60, -60}
SignOptLists ==
    { <<WithKeyset(k), WithSigningKeyName(n), WithSigningValidityPeriod(d)>> :
        k \in SignKeysets, n \in SignKeyNames, d \in SignPeriods }

\* The claims argument of Sign: a nil map, an empty one, private claims, and
\* claims named as the standard ones are.
ExtraClaimSets ==
    { NilStringMap,
      EmptyStringMap,
      StringMap([k \in {"foo"} |-> "bar"]),
      StringMap([k \in {"iss"} |-> "other"]),
      StringMap([k \in {"iat"} |-> "42"]),
      StringMap([k \in {"exp"} |-> "77"]),
      StringMap([k \in {"iat"} |-> "soon"]),
      StringMap([k \in {"sub"} |-> "joe"]),
      StringMap([k \in {"foo", "exp"} |-> IF k = "foo" THEN "bar" ELSE "9000"]) }

\* The clock argument of Sign: nil, an unset TimeClock, and fixed ones, after
\* the epoch and before it.
ClockArgs == {NilClock, TimeClock(0), TimeClock(50), TimeClock(1111), TimeClock(-1)}

NextSign ==
    \/ CallRegister(SeqThread, {"a"}, {"flame"}, SignOptLists)
    \/ CallSign(SeqThread, {"a"}, ExtraClaimSets, ClockArgs)
    \/ InitOnce(SeqThread)
    \/ InitBody(SeqThread)
    \/ RegisterCheck(SeqThread)
    \/ Lock(SeqThread)
    \/ RegisterInsert(SeqThread)
    \/ FindContext(SeqThread)
    \/ SignFinish(SeqThread)
    \/ Return(SeqThread)

SpecSign == Init /\ [][NextSign]_vars

\* The validating model: one thread registers purpose "a" with either issuer
\* and every keyset and key name below, and validates every token below
\* with every clock argument below.
KeyOther == Key("key1", "HS256", "not-abcd")
KSOther == Keyset(<<KeyOther>>)
ValidateKeysets == {NilKeyset, EmptyKeyset, KS1, KSOther}
ValidateOptLists ==
    { <<WithKeyset(k), WithSigningKeyName(n)>> :
        k \in ValidateKeysets, n \in {"", "key1"} }

\* The claim sets of the tokens: issued for flame at 1111, without exp or
\* expiring at 1171, with and without private claims and a subject.
TokenDates ==
    { SetClaim(SetClaim(NoClaims, "iss", Str("flame")), "iat", Num(1111)),
      SetClaim(SetClaim(SetClaim(NoClaims, "iss", Str("flame")), "iat", Num(1111)),
               "exp", Num(1171)) }
TokenClaimSets ==
    TokenDates
      \cup { SetClaim(m, "foo", Str("bar")) : m \in TokenDates }
      \cup { SetClaim(SetClaim(m, "n", Num(7)), "sub", Str("joe")) : m \in TokenDates }

\* The signed argument of Validate: no bytes at all, and tokens signed by key1.
ValidateTokens ==
    {Garbage} \cup { Token("HS256", "key1", m, "abcd1234") : m \in TokenClaimSets }

\* The clock argument of Validate: nil, an unset TimeClock, and fixed ones
\* before, at and after the dates of the tokens.
ValidateClockArgs ==
    { NilClock, TimeClock(0), TimeClock(50), TimeClock(1111), TimeClock(1170),
      TimeClock(1171), TimeClock(2222), TimeClock(10000) }

NextValidate ==
    \/ CallRegister(SeqThread, {"a"}, {"flame", "not-flame"}, ValidateOptLists)
    \/ CallValidate(SeqThread, {"a"}, ValidateTokens, ValidateClockArgs)
    \/ InitOnce(SeqThread)
    \/ InitBody(SeqThread)
    \/ RegisterCheck(SeqThread)
    \/ Lock(SeqThread)
    \/ RegisterInsert(SeqThread)
    \/ FindContext(SeqThread)
    \/ ValidateFinish(SeqThread)
    \/ Return(SeqThread)

SpecValidate == Init /\ [][NextValidate]_vars

\* The round-trip model: one thread registers and deletes purpose "a", signs
\* at 1111, keeps the token and validates it later.
RoundOptLists ==
    { <<WithKeyset(k), WithSigningKeyName("key1"), WithSigningValidityPeriod(d)>> :
        k \in {KS1, KSOther}, d \in {0, 60} }
RoundClaimSets ==
    { NilStringMap,
      EmptyStringMap,
      StringMap([k \in {"foo"} |-> "bar"]),
      StringMap([k \in {"sub"} |-> "joe"]) }
RoundValidateClocks ==
    {TimeClock(50), TimeClock(1111), TimeClock(1170), TimeClock(1171), TimeClock(2222)}

NextRound ==
    \/ CallRegister(SeqThread, {"a"}, {"flame", "not-flame"}, RoundOptLists)
    \/ CallDelete(SeqThread, {"a"})
    \/ CallSign(SeqThread, {"a"}, RoundClaimSets, SignClocks)
    \/ CallValidateHeld(SeqThread, {"a"}, RoundValidateClocks)
    \/ InitOnce(SeqThread)
    \/ InitBody(SeqThread)
    \/ RegisterCheck(SeqThread)
    \/ Lock(SeqThread)
    \/ RegisterInsert(SeqThread)
    \/ DeleteEntry(SeqThread)
    \/ FindContext(SeqThread)
    \/ SignFinish(SeqThread)
    \/ ValidateFinish(SeqThread)
    \/ KeepToken(SeqThread)
    \/ Return(SeqThread)

SpecRound == Init /\ [][NextRound]_vars

\* The registering model: two threads register purposes "a" and "b"
\* concurrently, and nothing else.
RegPurposes == {"a", "b"}
RegIssuers == {"flame", "not-flame"}

NextReg ==
    \E t \in Threads :
        \/ CallRegister(t, RegPurposes, RegIssuers, SmallOptLists)
        \/ InitOnce(t)
        \/ InitBody(t)
        \/ RegisterCheck(t)
        \/ Lock(t)
        \/ RegisterInsert(t)
        \/ Return(t)

SpecReg == Init /\ [][NextReg]_vars

\* The scheduling model: two threads call every operation on purpose "a".
\* The Go scheduler runs every runnable goroutine again, so a thread inside
\* a call takes its next step if that step stays possible; and a sync.Mutex
\* hands the lock to a goroutine that has waited long (starvation mode), so a
\* thread at lock.Lock() that can take the lock again and again does take it.
\* Nothing obliges a thread to call an operation.
LivePurposes == {"a"}
LiveIssuers == {"flame"}

NextLive ==
    \/ \E t \in Threads :
        \/ CallRegister(t, LivePurposes, LiveIssuers, SmallOptLists)
        \/ CallDelete(t, LivePurposes)
        \/ CallClear(t)
        \/ CallSign(t, LivePurposes, SignClaims, SignClocks)
        \/ CallValidate(t, LivePurposes, SignedInputs, ValidateClocks)
        \/ InitOnce(t)
        \/ InitBody(t)
        \/ RegisterCheck(t)
        \/ Lock(t)
        \/ RegisterInsert(t)
        \/ DeleteEntry(t)
        \/ FindContext(t)
        \/ SignFinish(t)
        \/ ValidateFinish(t)
        \/ ClearRange(t)
        \/ ClearDelete(t)
        \/ ClearExit(t)
        \/ Return(t)
    \/ RaceFault

\* A step of thread t inside its call, other than taking the lock.
Runs(t) ==
    \/ InitOnce(t)
    \/ InitBody(t)
    \/ RegisterCheck(t)
    \/ RegisterInsert(t)
    \/ DeleteEntry(t)
    \/ FindContext(t)
    \/ SignFinish(t)
    \/ ValidateFinish(t)
    \/ ClearRange(t)
    \/ ClearDelete(t)
    \/ ClearExit(t)
    \/ Return(t)

Fairness == \A t \in Threads : WF_vars(Runs(t)) /\ SF_vars(Lock(t))

SpecLive == Init /\ [][NextLive]_vars /\ Fairness

----------------------------------------------------------------------------
(* The claims *)

\* The step just taken is a step of thread t inside its call.
StepOf(t) == pc'[t] # pc[t] \/ (pc[t] = "loop" /\ registry' # registry)

\* C1: every read or write of the registry map is performed while the calling
\* thread holds the lock, and no two threads are at the map at once with one
\* of them writing.
C1_MapAccessUnderLock ==
    /\ \A t \in Threads : AtMap(t) => lock = t
    /\ \A t, u \in Threads : ~Racing(t, u)

\* C2: Clear takes effect atomically: a thread that has seen a Clear's removal
\* of one purpose never finds, in a later lookup, another purpose that was
\* registered before that Clear began and has not been registered since.
C2_ClearAtomicForLookups ==
    \A t, u \in Threads :
        (pc[t] = "rest" /\ found[t] /\ u \in saw[t]) => call[t].purpose \notin iter[u].snap

\* C3: the map is initialised before any operation touches it: a thread at a
\* map access has the completed once-guard behind it.
C3_InitBeforeMapAccess ==
    \A t \in Threads : AtMap(t) => (oncelock.done /\ ~registry.isNil)

\* C4: the body of initOnce runs exactly once however many threads race to the
\* first call; an initOnce call made after that changes nothing; the
\* allocation never discards an entry.
C4_AllocatedOnce ==
    /\ [](/\ allocs <= 1
          /\ oncelock.done <=> (allocs = 1)
          /\ registry.isNil <=> (allocs = 0))
    /\ [][\A t \in Threads :
             (pc[t] \in {"init", "initbody"} /\ StepOf(t)) =>
                /\ allocs > 0 => (registry' = registry /\ allocs' = allocs)
                /\ Keys(registry) \subseteq Keys(registry')]_vars

C4_Witness ==
    \E t, u \in Threads :
        /\ t # u
        /\ allocs = 1
        /\ Keys(registry) # {}
        /\ pc[t] = "lock" /\ call[t].op \in {"Sign", "Validate"}
        /\ pc[u] = "check"

\* C5: Register with an empty purpose fails with "purpose must be provided",
\* Register with a purpose and an empty issuer fails with "issuer must be
\* provided" (the purpose is checked first), whatever the options; no step of
\* such a call changes the purpose->Context mapping.
C5_InvalidRegisterNoEffect ==
    /\ [](\A t \in Threads :
            (pc[t] = "ret" /\ call[t].op = "Register") =>
                /\ call[t].purpose = "" => ret[t].err = "purpose must be provided"
                /\ (call[t].purpose # "" /\ call[t].issuer = "") =>
                        ret[t].err = "issuer must be provided")
    /\ [][\A t \in Threads :
             (/\ call[t].op = "Register"
              /\ call[t].purpose = "" \/ call[t].issuer = ""
              /\ StepOf(t)) => registry'.m = registry.m]_vars

C5_Witness ==
    \E t \in Threads :
        /\ pc[t] = "ret" /\ call[t].op = "Register"
        /\ call[t].purpose # "" /\ call[t].issuer = "" /\ Len(call[t].opts) = 2
        /\ call[t].purpose \in Keys(registry)
        /\ ret[t].err = "issuer must be provided"

\* The value the last option of a kind in opts gives, or 0 when there is none.
LastOfKind(opts, kind) ==
    IF \E i \in 1..Len(opts) : opts[i].kind = kind
    THEN CHOOSE i \in 1..Len(opts) :
            /\ opts[i].kind = kind
            /\ \A j \in (i + 1)..Len(opts) : opts[j].kind # kind
    ELSE 0

\* The Context a successful Register(purpose, issuer, opts) is to store.
ExpectedContext(purpose, issuer, opts) ==
    LET ks == LastOfKind(opts, "keyset")
        kn == LastOfKind(opts, "keyname")
        vp == LastOfKind(opts, "period")
    IN [isNil |-> FALSE,
        purpose |-> purpose,
        issuer |-> issuer,
        keyset |-> IF ks = 0 THEN NilKeyset ELSE opts[ks].keyset,
        signingKeyName |-> IF kn = 0 THEN "" ELSE opts[kn].name,
        signingValidityPeriod |-> IF vp = 0 THEN 0 ELSE opts[vp].d,
        clock |-> TimeClock(0)]

\* A Register call of t has returned nil.
Registered(t) == pc[t] = "ret" /\ call[t].op = "Register" /\ ret[t].err = ""

\* C6: after Register(p, issuer, opts) succeeds, a lookup of p finds the
\* Context with purpose p, that issuer, the default clock TimeClock{0}, and
\* each other field set by the last option that sets it, zero if none does.
C6_RegisterStoresOptions ==
    \A t \in Threads :
        Registered(t) =>
            MapLookup(registry, call[t].purpose) =
                [c |-> ExpectedContext(call[t].purpose, call[t].issuer, call[t].opts),
                 found |-> TRUE]

C6_Witness ==
    \E t \in Threads :
        /\ Registered(t)
        /\ Len(call[t].opts) = 2
        /\ call[t].opts[1].kind = call[t].opts[2].kind
        /\ call[t].opts[1] # call[t].opts[2]
        /\ registry.m[call[t].purpose].signingValidityPeriod = 60

\* C7: registering a registered purpose replaces the whole Context: the stored
\* Context has the second call's issuer, every field the second call's options
\* do not set is at its default, and every field they set has a value they gave.
C7_ReRegisterReplaces ==
    \A t \in Threads :
        (Registered(t) /\ old[t].found) =>
            LET s == registry.m[call[t].purpose]
                o == call[t].opts
                Given(kind) == {o[i] : i \in {j \in 1..Len(o) : o[j].kind = kind}}
            IN /\ s.purpose = call[t].purpose
               /\ s.issuer = call[t].issuer
               /\ s.clock = TimeClock(0)
               /\ IF Given("keyset") = {} THEN s.keyset = NilKeyset
                  ELSE s.keyset \in {x.keyset : x \in Given("keyset")}
               /\ IF Given("keyname") = {} THEN s.signingKeyName = ""
                  ELSE s.signingKeyName \in {x.name : x \in Given("keyname")}
               /\ IF Given("period") = {} THEN s.signingValidityPeriod = 0
                  ELSE s.signingValidityPeriod \in {x.d : x \in Given("period")}

C7_Witness ==
    \E t \in Threads :
        /\ Registered(t) /\ old[t].found
        /\ old[t].c.issuer # call[t].issuer
        /\ old[t].c.keyset = KS1
        /\ old[t].c.signingKeyName = "key1"
        /\ call[t].opts = <<>>
        /\ registry.m[call[t].purpose].keyset = NilKeyset

\* C8: Delete(p) leaves p absent, and an absent p stays absent until a Register
\* of p inserts it, so a lookup of p in between returns (nil, false); Delete
\* of a purpose that is not in the registry changes nothing and does not fail.
C8_DeleteRemoves ==
    [][/\ \A t \in Threads :
            (pc[t] = "delete" /\ StepOf(t)) =>
                /\ call[t].purpose \notin Keys(registry')
                /\ call[t].purpose \notin Keys(registry) => registry' = registry
                /\ ~crashed'
       /\ \A p \in Purposes :
            (p \notin Keys(registry) /\ p \in Keys(registry')) =>
                \E t \in Threads :
                    pc[t] = "insert" /\ StepOf(t) /\ call[t].purpose = p
       /\ \A t \in Threads :
            (pc[t] = "find" /\ StepOf(t) /\ call[t].purpose \notin Keys(registry)) =>
                (c'[t] = NilContext /\ ~found'[t])]_vars

C8_Witness ==
    \E t, u \in Threads :
        /\ pc[t] = "ret" /\ call[t].op = "Delete" /\ old[t].found
        /\ pc[u] = "rest" /\ call[u].purpose = call[t].purpose /\ ~found[u]
        /\ Keys(registry) # {}

\* C9: when Clear returns and no other thread has taken a step during it, the
\* registry is empty: the lookup of every purpose fails, and Sign and Validate
\* on it return "context not found in registry".
C9_ClearEmpties ==
    \A t \in Threads :
        (pc[t] = "ret" /\ call[t].op = "Clear" /\ ~touched[t]) =>
            \A p \in Purposes :
                LET l == MapLookup(registry, p)
                IN /\ ~l.found
                   /\ \A cl \in SignClaims, ck \in SignClocks :
                        SignRest(l.c, l.found, cl, ck, WallNow).err =
                            "context not found in registry"
                   /\ \A sg \in SignedInputs, ck \in ValidateClocks :
                        ValidateRest(l.c, l.found, sg, ck, WallNow).err =
                            "context not found in registry"

C9_Witness ==
    \E t \in Threads :
        /\ pc[t] = "ret" /\ call[t].op = "Clear" /\ ~touched[t]
        /\ old[t].wrote /\ old[t].found

\* C10: Sign and Validate on a purpose that is not in the registry when the
\* lookup runs fail with "context not found in registry", return no token and
\* no claims, and make no call into the JWT library.
C10_NotFound ==
    /\ [](\A t \in Threads :
            (pc[t] = "ret" /\ call[t].op \in {"Sign", "Validate"} /\ ~found[t]) =>
                ret[t] = Result("context not found in registry", NilBytes,
                                NilStringMap, <<>>))
    /\ [][\A t \in Threads :
            (pc[t] = "find" /\ StepOf(t)) =>
                found'[t] = (call[t].purpose \in Keys(registry))]_vars

C10_Witness ==
    \E t, u \in Threads :
        /\ pc[t] = "ret" /\ call[t].op = "Sign" /\ ~found[t]
        /\ pc[u] = "ret" /\ call[u].op = "Validate" /\ ~found[u]
        /\ call[t].purpose = "a" /\ call[u].purpose = "b"
        /\ ret[t].err = "context not found in registry"

\* A Sign call of thread t has returned, and its lookup found a Context.
SignReturned(t) == pc[t] = "ret" /\ call[t].op = "Sign" /\ found[t]

\* The Context names no key of its keyset.
NamesNoKey(cx) == \A i \in 1..Len(cx.keyset.keys) : cx.keyset.keys[i].kid # cx.signingKeyName

\* C11: for a registered purpose Sign reports the first failure in a fixed
\* order: an empty signingKeyName gives "signing key not set", whatever the
\* keyset is; otherwise a nil or zero-length keyset gives "keyset is empty";
\* otherwise a name that is no key id of the keyset gives "key is not in the
\* keyset". In each case no token is returned.
C11_SignCheckOrder ==
    \A t \in Threads :
        SignReturned(t) =>
            /\ c[t].signingKeyName = "" =>
                   ret[t].err = "signing key not set" /\ ret[t].signed = NilBytes
            /\ (c[t].signingKeyName # ""
                  /\ (c[t].keyset.isNil \/ c[t].keyset.keys = <<>>)) =>
                   ret[t].err = "keyset is empty" /\ ret[t].signed = NilBytes
            /\ (c[t].signingKeyName # "" /\ ~c[t].keyset.isNil
                  /\ c[t].keyset.keys # <<>> /\ NamesNoKey(c[t])) =>
                   ret[t].err = "key is not in the keyset" /\ ret[t].signed = NilBytes

C11_Witness ==
    \E t \in Threads :
        /\ SignReturned(t)
        /\ c[t].signingKeyName = "" /\ c[t].keyset = EmptyKeyset
        /\ ret[t].err = "signing key not set"

\* A Sign call of thread t has returned a token.
Signed(t) == SignReturned(t) /\ ret[t].err = "" /\ ~ret[t].signed.isNil

\* C12: a successful Sign with a fixed clock at T and no extra claims gives
\* the claim set exactly {iss: issuer, iat: T} when the validity period is 0,
\* and exactly {iss: issuer, iat: T, exp: T + D} when the period is D > 0.
C12_ExactClaimSet ==
    \A t \in Threads :
        (/\ Signed(t)
         /\ DOMAIN call[t].claims.m = {}
         /\ ~call[t].clock.isNil /\ call[t].clock.NowTime # 0) =>
            LET T == call[t].clock.NowTime
                D == c[t].signingValidityPeriod
                cl == ret[t].signed.claims
            IN /\ D = 0 =>
                    /\ DOMAIN cl = {"iss", "iat"}
                    /\ cl["iss"] = Str(c[t].issuer) /\ cl["iat"] = Num(T)
               /\ D > 0 =>
                    /\ DOMAIN cl = {"iss", "iat", "exp"}
                    /\ cl["iss"] = Str(c[t].issuer) /\ cl["iat"] = Num(T)
                    /\ cl["exp"] = Num(T + D)

C12_Witness ==
    \E t \in Threads :
        /\ Signed(t)
        /\ call[t].claims = EmptyStringMap
        /\ call[t].clock = TimeClock(1111)
        /\ c[t].signingValidityPeriod = 60
        /\ ret[t].signed.claims =
              [k \in {"iss", "iat", "exp"} |->
                  CASE k = "iss" -> Str("flame")
                    [] k = "iat" -> Num(1111)
                    [] k = "exp" -> Num(1171)]

\* A Sign call of thread t has returned a token, and its extra claims name
\* neither date claim.
SignedOwnDates(t) == Signed(t) /\ DOMAIN call[t].claims.m \cap {"iat", "exp"} = {}

FirstClockReading(arg, cx, wall) ==
    IF ~arg.isNil THEN TimeClockNow(arg, wall)
    ELSE IF ~cx.clock.isNil THEN TimeClockNow(cx.clock, wall)
    ELSE wall

C15_TimeClockNow ==
    \A t \in Threads :
        (SignedOwnDates(t) /\ ~call[t].clock.isNil) =>
            LET n == call[t].clock.NowTime
                iat == ret[t].signed.claims["iat"]
            IN /\ iat.isNum
               /\ n # 0 => iat.num = n
               /\ n = 0 => iat.num = call[t].wall /\ iat.num # 0

C15_Witness ==
    \E t \in Threads :
        /\ SignedOwnDates(t)
        /\ call[t].clock = TimeClock(0)
        /\ ret[t].signed.claims["iat"] = Num(WallNow)

\* C16: every key/value pair of the extra claims of a successful Sign is in
\* the signed claim set, next to the standard claims; an extra claim named as
\* a standard claim (iss, iat, exp) replaces the standard value, and the
\* standard claims the caller did not name keep theirs.
C16_ExtraClaimsLastWriteWins ==
    \A t \in Threads :
        Signed(t) =>
            LET extra == call[t].claims.m
                cl == ret[t].signed.claims
                now == nowFromClock(call[t].clock, call[t].wall)
            IN /\ \A k \in DOMAIN extra : k \in DOMAIN cl /\ Render(cl[k]) = extra[k]
               /\ DOMAIN cl \subseteq StandardClaims \cup DOMAIN extra
               /\ "iss" \notin DOMAIN extra => cl["iss"] = Str(c[t].issuer)
               /\ "iat" \notin DOMAIN extra => cl["iat"] = Num(now)
               /\ ("exp" \notin DOMAIN extra /\ c[t].signingValidityPeriod > 0) =>
                      cl["exp"] = Num(now + c[t].signingValidityPeriod)

C16_Witness ==
    \E t \in Threads :
        /\ Signed(t)
        /\ DOMAIN call[t].claims.m = {"foo", "exp"}
        /\ c[t].signingValidityPeriod = 60
        /\ call[t].clock = TimeClock(1111)
        /\ ret[t].signed.claims["exp"] = Num(9000)
        /\ ret[t].signed.claims["foo"] = Str("bar")
        /\ ret[t].signed.claims["iat"] = Num(1111)

\* C17: no step of a Sign or of a Validate call, successful or failed, changes
\* the registry: the mapping from purposes to Contexts, every stored
\* Context's fields included, is the same after the step as before it.
C17_SignValidateFrame ==
    [][\A t \in Threads :
          (call[t].op \in {"Sign", "Validate"} /\ StepOf(t)) =>
              registry'.m = registry.m]_vars

C17_Witness ==
    \E t, u \in Threads :
        /\ pc[t] = "ret" /\ call[t].op = "Sign" /\ ret[t].err = ""
        /\ pc[u] = "ret" /\ call[u].op = "Validate" /\ ret[u].err # ""
        /\ call[t].purpose \in Keys(registry)
        /\ registry.m[call[t].purpose] = c[t]

\* C18: a thread inside the JWT library (the rest of Sign or of Validate after
\* the lookup) does not hold the registry lock; a Sign or Validate call holds
\* it only at the lookup.
C18_NoLockInLibrary ==
    \A t \in Threads :
        /\ pc[t] \in {"rest", "ret"} => lock # t
        /\ (call[t].op \in {"Sign", "Validate"} /\ lock = t) => pc[t] = "find"

C18_Witness ==
    \E t, u \in Threads :
        /\ pc[t] = "rest" /\ call[t].op = "Sign" /\ found[t]
        /\ lock = u /\ pc[u] = "insert" /\ call[u].purpose = call[t].purpose

\* The step just taken is thread t's store of its new Context under purpose p.
Stores(t, p) ==
    /\ pc[t] = "insert" /\ StepOf(t) /\ call[t].purpose = p
    /\ registry'.m[p] = r[t]

\* C19: a Context is not changed once it is in the registry. The value under
\* a purpose changes, or appears, only when a Register stores its new Context
\* whole; that Context has had all its options applied by the time the store
\* is reached and is not written between then and the store; and the Context
\* a Sign or Validate looked up stays as it was found.
C19_ContextImmutable ==
    [][/\ \A p \in Keys(registry') :
             (p \notin Keys(registry) \/ registry'.m[p] # registry.m[p]) =>
                 \E t \in Threads : Stores(t, p)
       /\ \A t \in Threads :
             /\ pc[t] = "insert" =>
                   r[t] = ExpectedContext(call[t].purpose, call[t].issuer, call[t].opts)
             /\ pc[t] = "lock" => r'[t] = r[t]
             /\ pc[t] = "rest" => c'[t] = c[t]]_vars

C19_Witness ==
    \E t, u \in Threads :
        /\ pc[t] = "rest" /\ found[t]
        /\ pc[u] = "ret" /\ call[u].op = "Register" /\ old[u].found
        /\ call[u].purpose = call[t].purpose
        /\ c[t] = old[u].c
        /\ call[t].purpose \in Keys(registry)
        /\ registry.m[call[t].purpose] # c[t]

\* The key a token was signed with is a key of keyset ks.
SignedByKeyOf(token, ks) ==
    \E i \in 1..Len(ks.keys) :
        /\ ks.keys[i].kid = token.kid
        /\ ks.keys[i].secret = token.secret
        /\ ks.keys[i].alg = token.alg

\* C20: a Sign or Validate uses the configuration of one registration, the
\* Context its lookup returned, whatever Register, Delete or Clear do to the
\* purpose meanwhile: the lookup returns the Context then stored, and issuer,
\* keyset, key name and validity period in the outcome are all that
\* Context's.
C20_OneRegistration ==
    /\ [][\A t \in Threads :
             (pc[t] = "find" /\ StepOf(t) /\ found'[t]) =>
                 c'[t] = registry.m[call[t].purpose]]_vars
    /\ [](\A t \in Threads :
            /\ SignReturned(t) =>
                 /\ (ret[t].err = "signing key not set") = (c[t].signingKeyName = "")
                 /\ ret[t].err = "keyset is empty" =>
                        (c[t].keyset.isNil \/ c[t].keyset.keys = <<>>)
                 /\ ret[t].err = "" =>
                        /\ ret[t].signed.claims["iss"] = Str(c[t].issuer)
                        /\ ret[t].signed.kid = c[t].signingKeyName
                        /\ SignedByKeyOf(ret[t].signed, c[t].keyset)
                        /\ ("exp" \in DOMAIN ret[t].signed.claims) =
                               (c[t].signingValidityPeriod > 0)
            /\ (pc[t] = "ret" /\ call[t].op = "Validate" /\ found[t]) =>
                 /\ (ret[t].err = "keyset is empty") =
                        (c[t].keyset.isNil \/ c[t].keyset.keys = <<>>)
                 /\ ret[t].err = "" =>
                        /\ call[t].signed.claims["iss"] = Str(c[t].issuer)
                        /\ SignedByKeyOf(call[t].signed, c[t].keyset))

C20_Witness ==
    \E t, u \in Threads :
        /\ Signed(t)
        /\ call[u].op = "Register" /\ pc[u] = "ret" /\ old[u].found
        /\ call[u].purpose = call[t].purpose
        /\ old[u].c = c[t]
        /\ call[t].purpose \in Keys(registry)
        /\ registry.m[call[t].purpose].signingKeyName = ""
        /\ ret[t].signed.kid = "key1"

\* A Validate call of thread t has returned, its lookup found a Context with
\* keys, and the token is signed by a key of that Context's keyset.
ValidateReturned(t) == pc[t] = "ret" /\ call[t].op = "Validate" /\ found[t]
VerifiedToken(t) ==
    /\ ValidateReturned(t)
    /\ call[t].signed.parses
    /\ SignedByKeyOf(call[t].signed, c[t].keyset)

\* The time a Validate call checks the token's dates against: the reading of
\* the clock argument, or of the wall clock when the argument is nil or unset.
ValidationTime(t) ==
    IF ~call[t].clock.isNil /\ call[t].clock.NowTime # 0
    THEN call[t].clock.NowTime
    ELSE call[t].wall

\* C21: with a clock at V, Validate rejects a correctly signed token of the
\* right issuer whose iat is after V ("iat" not satisfied), rejects one whose
\* exp is before V ("exp" not satisfied), and accepts one when iat <= V and V
\* is before exp or there is no exp; with a nil clock V is the wall clock's
\* time.
C21_ValidateTimeWindow ==
    \A t \in Threads :
        (VerifiedToken(t) /\ call[t].signed.claims["iss"] = Str(c[t].issuer)) =>
            LET V == ValidationTime(t)
                cl == call[t].signed.claims
                hasExp == "exp" \in DOMAIN cl
            IN /\ cl["iat"].num > V => ret[t].err = "\"iat\" not satisfied"
               /\ (cl["iat"].num <= V /\ hasExp /\ cl["exp"].num < V) =>
                      ret[t].err = "\"exp\" not satisfied"
               /\ (cl["iat"].num <= V /\ (hasExp => V < cl["exp"].num)) =>
                      ret[t].err = ""

C21_Witness ==
    \E t \in Threads :
        /\ VerifiedToken(t)
        /\ call[t].clock = TimeClock(10000)
        /\ "exp" \in DOMAIN call[t].signed.claims
        /\ ret[t].err = "\"exp\" not satisfied"

\* The token of thread t's Validate call is inside its time window at the
\* time the call checks it against.
InsideWindow(t) ==
    /\ call[t].signed.claims["iat"].num <= ValidationTime(t)
    /\ "exp" \in DOMAIN call[t].signed.claims =>
           ValidationTime(t) < call[t].signed.claims["exp"].num

\* C22: a token signed for issuer X, validated through a purpose whose
\* Context has another issuer, fails with the issuer-mismatch error and
\* returns no claims, though its signature, key and time window are valid.
C22_IssuerMismatch ==
    \A t \in Threads :
        (/\ VerifiedToken(t) /\ InsideWindow(t)
         /\ call[t].signed.claims["iss"] # Str(c[t].issuer)) =>
            /\ ret[t].err = "\"iss\" not satisfied: values do not match"
            /\ ret[t].claims = NilStringMap

C22_Witness ==
    \E t \in Threads :
        /\ VerifiedToken(t) /\ InsideWindow(t)
        /\ call[t].signed.claims["iss"] = Str("flame")
        /\ c[t].issuer = "not-flame"
        /\ call[t].clock = TimeClock(2222)
        /\ ret[t].err = "\"iss\" not satisfied: values do not match"

\* The claims of a token that are not registered claims of a JWT.
PrivateNames(token) == DOMAIN token.claims \ {"iss", "iat", "exp", "sub"}

C24_KeyOwnAlgorithm ==
    \A t \in Threads :
        Signed(t) =>
            \E i \in 1..Len(c[t].keyset.keys) :
                LET key == c[t].keyset.keys[i]
                IN /\ key.kid = c[t].signingKeyName
                   /\ ret[t].signed.kid = key.kid
                   /\ ret[t].signed.secret = key.secret
                   /\ ret[t].signed.alg = key.alg

C24_Witness ==
    \E t \in Threads :
        /\ Signed(t)
        /\ c[t].keyset = KS2 /\ c[t].signingKeyName = "key2"
        /\ ret[t].signed.alg = "HS512" /\ ret[t].signed.secret = "efgh5678"

\* C25: for a registered purpose Validate fails with "keyset is empty"
\* whenever the Context's keyset is nil or has no keys, whatever the token
\* is and before it is parsed; and it does not ask for a signingKeyName: a
\* Context with a keyset and no key name, for which Sign fails with "signing
\* key not set", validates a token signed by a key of its keyset.
C25_ValidateNeedsKeysetOnly ==
    \A t \in Threads :
        ValidateReturned(t) =>
            /\ (c[t].keyset.isNil \/ c[t].keyset.keys = <<>>) =>
                   /\ ret[t].err = "keyset is empty"
                   /\ ret[t].claims = NilStringMap
                   /\ \A i \in 1..Len(ret[t].calls) : ret[t].calls[i] # "Parse"
            /\ (/\ c[t].signingKeyName = ""
                /\ VerifiedToken(t) /\ InsideWindow(t)
                /\ call[t].signed.claims["iss"] = Str(c[t].issuer)) =>
                   /\ ret[t].err = ""
                   /\ \A cl \in ExtraClaimSets, ck \in ClockArgs :
                         SignRest(c[t], TRUE, cl, ck, call[t].wall).err =
                             "signing key not set"

C25_Witness ==
    \E t \in Threads :
        /\ ValidateReturned(t)
        /\ c[t].signingKeyName = "" /\ c[t].keyset = KS1
        /\ VerifiedToken(t)
        /\ ret[t].err = "" /\ ~ret[t].claims.isNil

\* Thread t's Validate of the token it kept has returned; the purpose is
\* registered with the issuer and keyset the token was signed under, and
\* the validation time V is inside the window: T <= V, and V < T + D when a
\* validity period D > 0 was configured at the signing time T.
RoundTrip(t) ==
    /\ ValidateReturned(t)
    /\ call[t].signed = kept[t].signed
    /\ c[t].issuer = kept[t].by.issuer /\ c[t].keyset = kept[t].by.keyset
    /\ kept[t].clock.NowTime <= call[t].clock.NowTime
    /\ kept[t].by.signingValidityPeriod > 0 =>
           call[t].clock.NowTime <
               kept[t].clock.NowTime + kept[t].by.signingValidityPeriod

C27_EntriesWellFormed ==
    \A p \in Keys(registry) :
        /\ ~registry.m[p].isNil
        /\ registry.m[p].purpose = p
        /\ p # ""
        /\ registry.m[p].issuer # ""
        /\ ~registry.m[p].clock.isNil

C27_Witness ==
    /\ Keys(registry) = {"a", "b"}
    /\ registry.m["a"].keyset = KS1
    /\ registry.m["b"].keyset = NilKeyset

\* Both threads are returning from a successful Register.
BothRegistered(t, u) ==
    /\ t # u
    /\ pc[t] = "ret" /\ call[t].op = "Register" /\ old[t].wrote
    /\ pc[u] = "ret" /\ call[u].op = "Register" /\ old[u].wrote

\* C28: concurrent successful Registers lose no update. A Register's store
\* puts its Context under its purpose and changes no other entry; so with
\* different purposes both entries are there when both calls return, and
\* with the same purpose the entry is the Context of one of the two calls.
C28_NoLostRegister ==
    /\ [][\A t \in Threads :
             (pc[t] = "insert" /\ StepOf(t)) =>
                 /\ registry'.m[call[t].purpose] = r[t]
                 /\ \A q \in Keys(registry) \ {call[t].purpose} :
                       q \in Keys(registry') /\ registry'.m[q] = registry.m[q]]_vars
    /\ [](\A t, u \in Threads :
            BothRegistered(t, u) =>
                /\ {call[t].purpose, call[u].purpose} \subseteq Keys(registry)
                /\ \/ registry.m[call[t].purpose] = r[t]
                   \/ registry.m[call[u].purpose] = r[u]
                /\ call[t].purpose = call[u].purpose =>
                       registry.m[call[t].purpose] \in {r[t], r[u]})

C28_Witness ==
    \E t, u \in Threads :
        /\ BothRegistered(t, u)
        /\ call[t].purpose = call[u].purpose
        /\ r[t] # r[u]
        /\ old[u].found /\ old[u].c = r[t]
        /\ registry.m[call[u].purpose] = r[u]
        /\ Keys(registry) = {"a", "b"}

\* C29: a step of Register(p, ...) or of Delete(p) leaves every other
\* purpose as it was: present or absent as before, with the same Context.
C29_OtherEntriesUntouched ==
    [][\A t \in Threads :
          (call[t].op \in {"Register", "Delete"} /\ StepOf(t)) =>
              \A q \in Purposes \ {call[t].purpose} :
                  /\ (q \in Keys(registry')) = (q \in Keys(registry))
                  /\ q \in Keys(registry) => registry'.m[q] = registry.m[q]]_vars

C29_Witness ==
    \E t, u \in Threads :
        /\ pc[t] = "ret" /\ call[t].op = "Delete" /\ old[t].found
        /\ pc[u] = "ret" /\ call[u].op = "Register" /\ old[u].found
        /\ call[t].purpose = "a" /\ call[u].purpose = "a"
        /\ "b" \in Keys(registry)

\* C30: under fair scheduling every Register, Delete, Clear, Sign and
\* Validate call terminates: a thread inside a call is eventually back from
\* it.
C30_EveryCallTerminates ==
    \A t \in Threads : (pc[t] # "idle") ~> (pc[t] = "idle")

====
